---- MODULE Spec2Model ----
(***************************************************************************)
(* A model of SpatialMap (src/spatialmap.js): a uniform grid of buckets    *)
(* over axis-aligned bounding boxes.  The state is the heap the class      *)
(* works on: the map instances (grid of buckets, tracked list), the        *)
(* caller's objects (AABB, the .spatial handle insert attaches, the        *)
(* .checked stamp of the callback queries) and the module-level counter    *)
(* `checked`.  Every method is an operator on that heap, written after     *)
(* its code; every action is one call of a method by the caller.           *)
(***************************************************************************)
EXTENDS Integers, Sequences, FiniteSets, TLC

\* ------------------------------------------------------------------ bounds
\* constructor arguments of the map the model builds: new SpatialMap(
\* CellSize, WorldWidth, WorldHeight, options), a grid of 2 x 2 buckets
CellSize == 2
WorldWidth == 4
WorldHeight == 4
\* the callback queries are called while `checked` is below this
MaxChecked == 2

\* the map instances and the caller's objects
MapIds == {1}
Items == {1, 2}

\* AABBs [x1, y1, x2, y2] the caller gives its objects and its queries:
\* the first cell; the cell diagonally next to it; a box over four cells;
\* a zero-area box on a cell boundary; a box partly outside the world that
\* is clamped to the first cell.
Boxes ==
    { <<0, 0, CellSize, CellSize>>,
      <<CellSize, CellSize, 2 * CellSize, 2 * CellSize>>,
      <<1, 1, CellSize + 1, CellSize + 1>>,
      <<CellSize, CellSize, CellSize, CellSize>>,
      <<-1, -1, 1, 1>> }

\* the AABB of the whole world
EntireWorld == <<0, 0, WorldWidth, WorldHeight>>

\* ------------------------------------------------------- JavaScript values
\* `undefined`, for the numeric fields that may lack a value (spatial.xStart
\* before the first insert, object.checked before the first callback query);
\* no number the model computes equals it
undefined == -1000000
\* this.list of a map built without options.update
null == <<undefined>>

\* Math.floor(a / b) for integers a and b # 0 (\div rounds down, whatever
\* the signs)
floor(a, b) == a \div b
\* Math.ceil(a / b) for integers a and b # 0
ceil(a, b) == -((-a) \div b)

\* Array.prototype.indexOf: 0-based index of the first occurrence, or -1
indexOf(list, o) ==
    IF \E k \in 1..Len(list) : list[k] = o
    THEN (CHOOSE k \in 1..Len(list) :
              list[k] = o /\ \A j \in 1..(k - 1) : list[j] # o) - 1
    ELSE -1

\* list.splice(index, 1): drops the element at 0-based index; a negative
\* index counts from the end
splice1(list, index) ==
    LET start == IF index < 0
                 THEN (IF Len(list) + index < 0 THEN 0 ELSE Len(list) + index)
                 ELSE (IF index > Len(list) THEN Len(list) ELSE index)
    IN [k \in 1..(IF start < Len(list) THEN Len(list) - 1 ELSE Len(list)) |->
            IF k <= start THEN list[k] ELSE list[k + 1]]

\* list.splice(index) with the delete count left out: drops everything from
\* 0-based index to the end; a negative index counts from the end
spliceFrom(list, index) ==
    LET start == IF index < 0
                 THEN (IF Len(list) + index < 0 THEN 0 ELSE Len(list) + index)
                 ELSE (IF index > Len(list) THEN Len(list) ELSE index)
    IN SubSeq(list, 1, start)

\* --------------------------------------------------------------- the state
VARIABLES
    map,        \* map[m]: the SpatialMap instance m
                \*   [cellSize, width, height, count, grid, list]
    object,     \* object[o]: the caller's object o  [AABB, spatial, checked]
    checked,    \* the module-level counter of the callback queries
    lastCall,   \* lastCall[o]: the caller's most recent insert/remove of o
    last        \* the caller's most recent call and what it returned

vars == <<map, object, checked, lastCall, last>>

\* new SpatialMap(cellSize, width, height, options)
constructor(cellSize, width, height, options) ==
    LET w == ceil(width, cellSize)
        h == ceil(height, cellSize)
    IN [cellSize |-> cellSize,
        width    |-> w,
        height   |-> h,
        count    |-> w * h,
        grid     |-> [i \in 0..(w * h - 1) |-> <<>>],
        list     |-> IF options.update THEN <<>> ELSE null]

\* an object that was never given to insert: object.spatial is undefined
noSpatial ==
    [exists |-> FALSE, maps |-> <<>>,
     xStart |-> undefined, yStart |-> undefined,
     xEnd |-> undefined, yEnd |-> undefined]

\* object.spatial = {maps: []}
newSpatial == [noSpatial EXCEPT !.exists = TRUE]

\* the row-major walk of the two nested loops
\*   for (y = yStart; y <= yEnd; y++) for (x = xStart; x <= xEnd; x++)
\* as the sequence of bucket indexes y * width + x it touches
cells(r, width) ==
    LET nx == IF r.xEnd >= r.xStart THEN r.xEnd - r.xStart + 1 ELSE 0
        ny == IF r.yEnd >= r.yStart THEN r.yEnd - r.yStart + 1 ELSE 0
    IN [k \in 1..(nx * ny) |->
            (r.yStart + ((k - 1) \div nx)) * width + (r.xStart + ((k - 1) % nx))]

\* Seeded fault for insertRange: the clamp of xStart to 0 (line 79) is
\* left out
insertRangeNoClamp(this, AABB) ==
    LET xStart == floor(AABB[1], this.cellSize)
        yStart == floor(AABB[2], this.cellSize)
        xEnd   == floor(AABB[3] - 1, this.cellSize)
        yEnd   == floor(AABB[4] - 1, this.cellSize)
    IN [xStart |-> xStart,
        yStart |-> IF yStart < 0 THEN 0 ELSE yStart,
        xEnd   |-> IF xEnd >= this.width THEN this.width - 1 ELSE xEnd,
        yEnd   |-> IF yEnd >= this.height THEN this.height - 1 ELSE yEnd]

\* Seeded fault for insertRange: xEnd is taken from AABB[2], not from
\* AABB[2] - 1
insertRangeNoEpsilon(this, AABB) ==
    LET xStart == floor(AABB[1], this.cellSize)
        yStart == floor(AABB[2], this.cellSize)
        xEnd   == floor(AABB[3], this.cellSize)
        yEnd   == floor(AABB[4] - 1, this.cellSize)
    IN [xStart |-> IF xStart < 0 THEN 0 ELSE xStart,
        yStart |-> IF yStart < 0 THEN 0 ELSE yStart,
        xEnd   |-> IF xEnd >= this.width THEN this.width - 1 ELSE xEnd,
        yEnd   |-> IF yEnd >= this.height THEN this.height - 1 ELSE yEnd]

\* the cell range insert computes from object.AABB
insertRange(this, AABB) ==
    LET xStart == floor(AABB[1], this.cellSize)
        yStart == floor(AABB[2], this.cellSize)
        xEnd   == floor(AABB[3] - 1, this.cellSize)
        yEnd   == floor(AABB[4] - 1, this.cellSize)
    IN [xStart |-> IF xStart < 0 THEN 0 ELSE xStart,
        yStart |-> IF yStart < 0 THEN 0 ELSE yStart,
        xEnd   |-> IF xEnd >= this.width THEN this.width - 1 ELSE xEnd,
        yEnd   |-> IF yEnd >= this.height THEN this.height - 1 ELSE yEnd]

\* the heap the methods work on
heap == [map |-> map, object |-> object, checked |-> checked]

\* Seeded fault for removeLoop: `if (maps.length)` in place of
\* `while (maps.length)`, only the last bucket is popped
removeLoopOnce(h, o) ==
    LET maps == h.object[o].spatial.maps
    IN IF Len(maps) = 0 THEN h
       ELSE LET b     == maps[Len(maps)]
                list  == h.map[b[1]].grid[b[2]]
                index == indexOf(list, o)
                h1    == [h EXCEPT !.object[o].spatial.maps =
                                        SubSeq(maps, 1, Len(maps) - 1)]
            IN IF index # -1
               THEN [h1 EXCEPT !.map[b[1]].grid[b[2]] = splice1(list, index)]
               ELSE h1

\* Seeded fault for removeLoop: the list.splice(index, 1) of line 126 is
\* left out, the buckets are popped off spatial.maps and keep the object
removeLoopNoSplice(h, o) ==
    [h EXCEPT !.object[o].spatial.maps = <<>>]

\* the while loop of remove: pops every bucket off spatial.maps and drops
\* the object from it.  A bucket is named <<m, i>>: grid[i] of map m.
RECURSIVE removeLoop(_, _)
removeLoop(h, o) ==
    LET maps == h.object[o].spatial.maps
    IN IF Len(maps) = 0 THEN h
       ELSE LET b     == maps[Len(maps)]
                list  == h.map[b[1]].grid[b[2]]
                index == indexOf(list, o)
                h1    == [h EXCEPT !.object[o].spatial.maps =
                                        SubSeq(maps, 1, Len(maps) - 1)]
                h2    == IF index # -1
                         THEN [h1 EXCEPT !.map[b[1]].grid[b[2]] =
                                              splice1(list, index)]
                         ELSE h1
            IN removeLoop(h2, o)

\* remove(object, replace) called on map m
remove(h, m, o, replace) ==
    LET h1   == IF h.object[o].spatial.exists THEN removeLoop(h, o) ELSE h
        list == h1.map[m].list
    IN IF list # null /\ ~replace
       THEN [h1 EXCEPT !.map[m].list = spliceFrom(list, indexOf(list, o))]
       ELSE h1

\* the nested loops of insert: the object is pushed on every bucket of the
\* range, and every bucket on spatial.maps
RECURSIVE insertLoop(_, _, _, _)
insertLoop(h, m, o, cs) ==
    IF cs = <<>> THEN h
    ELSE LET i == Head(cs)
         IN insertLoop(
                [h EXCEPT !.map[m].grid[i] = Append(@, o),
                          !.object[o].spatial.maps = Append(@, <<m, i>>)],
                m, o, Tail(cs))

\* Seeded fault for insert: the comparison with the cached range is left
\* out, the object is taken out and pushed again on every call
insertAlways(h, m, o) ==
    LET h1 == IF ~h.object[o].spatial.exists
              THEN [h EXCEPT !.object[o].spatial = newSpatial,
                             !.map[m].list =
                                 IF @ # null THEN Append(@, o) ELSE @]
              ELSE h
        r  == insertRange(h1.map[m], h1.object[o].AABB)
        s  == h1.object[o].spatial
        h2 == IF Len(s.maps) > 0 THEN remove(h1, m, o, TRUE) ELSE h1
        h3 == insertLoop(h2, m, o, cells(r, h2.map[m].width))
    IN [h3 EXCEPT !.object[o].spatial.xStart = r.xStart,
                  !.object[o].spatial.yStart = r.yStart,
                  !.object[o].spatial.xEnd = r.xEnd,
                  !.object[o].spatial.yEnd = r.yEnd]

\* Seeded fault for insert: the call this.remove(object, true) of line 92
\* is left out, the object stays in the buckets of its old range
insertNoRemove(h, m, o) ==
    LET h1 == IF ~h.object[o].spatial.exists
              THEN [h EXCEPT !.object[o].spatial = newSpatial,
                             !.map[m].list =
                                 IF @ # null THEN Append(@, o) ELSE @]
              ELSE h
        r  == insertRange(h1.map[m], h1.object[o].AABB)
        s  == h1.object[o].spatial
    IN IF s.xStart # r.xStart \/ s.yStart # r.yStart
          \/ s.xEnd # r.xEnd \/ s.yEnd # r.yEnd
       THEN LET h3 == insertLoop(h1, m, o, cells(r, h1.map[m].width))
            IN [h3 EXCEPT !.object[o].spatial.xStart = r.xStart,
                          !.object[o].spatial.yStart = r.yStart,
                          !.object[o].spatial.xEnd = r.xEnd,
                          !.object[o].spatial.yEnd = r.yEnd]
       ELSE h1

\* insert(object) called on map m
insert(h, m, o) ==
    LET h1 == IF ~h.object[o].spatial.exists
              THEN [h EXCEPT !.object[o].spatial = newSpatial,
                             !.map[m].list =
                                 IF @ # null THEN Append(@, o) ELSE @]
              ELSE h
        r  == insertRange(h1.map[m], h1.object[o].AABB)
        s  == h1.object[o].spatial
    IN IF s.xStart # r.xStart \/ s.yStart # r.yStart
          \/ s.xEnd # r.xEnd \/ s.yEnd # r.yEnd
       THEN LET h2 == IF Len(s.maps) > 0 THEN remove(h1, m, o, TRUE) ELSE h1
                h3 == insertLoop(h2, m, o, cells(r, h2.map[m].width))
            IN [h3 EXCEPT !.object[o].spatial.xStart = r.xStart,
                          !.object[o].spatial.yStart = r.yStart,
                          !.object[o].spatial.xEnd = r.xEnd,
                          !.object[o].spatial.yEnd = r.yEnd]
       ELSE h1

\* update(): insert is called again for list[0..length-1], the length read
\* once before the loop
RECURSIVE updateLoop(_, _, _, _)
updateLoop(h, m, i, length) ==
    IF i >= length THEN h
    ELSE updateLoop(insert(h, m, h.map[m].list[i + 1]), m, i + 1, length)

\* update() called on map m
update(h, m) ==
    LET list == h.map[m].list
    IN IF list # null THEN updateLoop(h, m, 0, Len(list)) ELSE h

\* the cell range query computes from its argument
queryRange(this, AABB) ==
    LET xStart == floor(AABB[1], this.cellSize)
        yStart == floor(AABB[2], this.cellSize)
        xEnd   == floor(AABB[3] - 1, this.cellSize)
        yEnd   == floor(AABB[4] - 1, this.cellSize)
    IN [xStart |-> IF xStart < 0 THEN 0 ELSE xStart,
        yStart |-> IF yStart < 0 THEN 0 ELSE yStart,
        xEnd   |-> IF xEnd >= this.width THEN this.width - 1 ELSE xEnd,
        yEnd   |-> IF yEnd >= this.height THEN this.height - 1 ELSE yEnd]

\* the nested loops of query.  `results` is declared const, so the
\* assignment results = results.concat(list), reached at the first bucket
\* of the range that holds anything, raises a TypeError; a bucket that is
\* empty is skipped by `if (list.length)`.
RECURSIVE queryLoop(_, _, _, _)
queryLoop(h, m, cs, results) ==
    IF cs = <<>> THEN [threw |-> FALSE, results |-> results]
    ELSE LET list == h.map[m].grid[Head(cs)]
         IN IF Len(list) > 0
            THEN [threw |-> TRUE, results |-> <<>>]
            ELSE queryLoop(h, m, Tail(cs), results)

\* query(AABB) called on map m: what it returns, or that it threw
query(h, m, AABB) ==
    queryLoop(h, m, cells(queryRange(h.map[m], AABB), h.map[m].width), <<>>)

\* the cell range queryCallback computes from its argument
queryCallbackRange(this, AABB) ==
    LET xStart == floor(AABB[1], this.cellSize)
        yStart == floor(AABB[2], this.cellSize)
        xEnd   == floor(AABB[3] - 1, this.cellSize)
        yEnd   == floor(AABB[4] - 1, this.cellSize)
    IN [xStart |-> IF xStart < 0 THEN 0 ELSE xStart,
        yStart |-> IF yStart < 0 THEN 0 ELSE yStart,
        xEnd   |-> IF xEnd >= this.width THEN this.width - 1 ELSE xEnd,
        yEnd   |-> IF yEnd >= this.height THEN this.height - 1 ELSE yEnd]

\* the buckets a traversal walks, one after the other: bs is a sequence of
\* bucket names <<m, i>>, the result the sequence of list[0], list[1], ...
\* of each in turn
RECURSIVE articles(_, _)
articles(h, bs) ==
    IF bs = <<>> THEN <<>>
    ELSE h.map[Head(bs)[1]].grid[Head(bs)[2]] \o articles(h, Tail(bs))

\* Seeded fault for queryCallbackLoop: `article.checked = checked` is left
\* out
RECURSIVE queryCallbackLoopNoStamp(_, _, _, _)
queryCallbackLoopNoStamp(h, as, callback, visited) ==
    IF as = <<>> THEN [h |-> h, visited |-> visited, ret |-> FALSE]
    ELSE LET article == Head(as)
         IN IF h.object[article].checked # h.checked
            THEN IF callback[article]
                 THEN [h |-> h, visited |-> Append(visited, article),
                       ret |-> TRUE]
                 ELSE queryCallbackLoopNoStamp(
                          h, Tail(as), callback, Append(visited, article))
            ELSE queryCallbackLoopNoStamp(h, Tail(as), callback, visited)

\* Seeded fault for queryCallbackLoop: the callback's return value is
\* remembered but the loops run on to the end
RECURSIVE queryCallbackLoopNoStop(_, _, _, _)
queryCallbackLoopNoStop(h, as, callback, visited) ==
    IF as = <<>>
    THEN [h |-> h, visited |-> visited,
          ret |-> \E k \in 1..Len(visited) : callback[visited[k]]]
    ELSE LET article == Head(as)
         IN IF h.object[article].checked # h.checked
            THEN queryCallbackLoopNoStop(
                     [h EXCEPT !.object[article].checked = h.checked],
                     Tail(as), callback, Append(visited, article))
            ELSE queryCallbackLoopNoStop(h, Tail(as), callback, visited)

\* the loops of queryCallback over the articles of the buckets in range.
\* callback[a] is what the caller's callback returns for article a; visited
\* collects the articles the callback was invoked on, in order.
RECURSIVE queryCallbackLoop(_, _, _, _)
queryCallbackLoop(h, as, callback, visited) ==
    IF as = <<>> THEN [h |-> h, visited |-> visited, ret |-> FALSE]
    ELSE LET article == Head(as)
         IN IF h.object[article].checked # h.checked
            THEN IF callback[article]
                 THEN [h |-> h, visited |-> Append(visited, article),
                       ret |-> TRUE]
                 ELSE queryCallbackLoop(
                          [h EXCEPT !.object[article].checked = h.checked],
                          Tail(as), callback, Append(visited, article))
            ELSE queryCallbackLoop(h, Tail(as), callback, visited)

\* Seeded fault for queryCallback: the checked++ of line 219 is left out
queryCallbackNoAdvance(h, m, AABB, callback) ==
    LET r  == queryCallbackRange(h.map[m], AABB)
        cs == cells(r, h.map[m].width)
    IN queryCallbackLoop(h, articles(h, [k \in 1..Len(cs) |-> <<m, cs[k]>>]),
                         callback, <<>>)

\* queryCallback(AABB, callback) called on map m
queryCallback(h, m, AABB, callback) ==
    LET r  == queryCallbackRange(h.map[m], AABB)
        h1 == [h EXCEPT !.checked = @ + 1]
        cs == cells(r, h.map[m].width)
    IN queryCallbackLoop(h1, articles(h1, [k \in 1..Len(cs) |-> <<m, cs[k]>>]),
                         callback, <<>>)

\* the loops of queryCallbackArticle over the buckets of article.spatial.maps
RECURSIVE queryCallbackArticleLoop(_, _, _, _)
queryCallbackArticleLoop(h, as, callback, visited) ==
    IF as = <<>>
    THEN [h |-> h, visited |-> visited, ret |-> FALSE, threw |-> FALSE]
    ELSE LET check == Head(as)
         IN IF h.object[check].checked # h.checked
            THEN IF callback[check]
                 THEN [h |-> h, visited |-> Append(visited, check),
                       ret |-> TRUE, threw |-> FALSE]
                 ELSE queryCallbackArticleLoop(
                          [h EXCEPT !.object[check].checked = h.checked],
                          Tail(as), callback, Append(visited, check))
            ELSE queryCallbackArticleLoop(h, Tail(as), callback, visited)

\* Seeded fault for queryCallbackArticle: the loops walk every bucket of
\* every map instead of the buckets of article.spatial.maps
queryCallbackArticleAllBuckets(h, article, callback) ==
    LET h1 == [h EXCEPT !.checked = @ + 1,
                        !.object[article].checked = h.checked + 1]
        m  == CHOOSE x \in DOMAIN h.map : TRUE
    IN IF ~h1.object[article].spatial.exists
       THEN [h |-> h1, visited |-> <<>>, ret |-> FALSE, threw |-> TRUE]
       ELSE queryCallbackArticleLoop(
                h1, articles(h1, [k \in 1..h.map[m].count |-> <<m, k - 1>>]),
                callback, <<>>)

\* Seeded fault for queryCallbackArticle: the buckets are taken with
\* maps.pop(), as remove does, instead of maps[i]; the handle ends up
\* listing no bucket
queryCallbackArticlePops(h, article, callback) ==
    LET h1 == [h EXCEPT !.checked = @ + 1,
                        !.object[article].checked = h.checked + 1]
    IN IF ~h1.object[article].spatial.exists
       THEN [h |-> h1, visited |-> <<>>, ret |-> FALSE, threw |-> TRUE]
       ELSE queryCallbackArticleLoop(
                [h1 EXCEPT !.object[article].spatial.maps = <<>>],
                articles(h1, h1.object[article].spatial.maps),
                callback, <<>>)

\* Seeded fault for queryCallbackArticle: the two assignments
\* article.checked = checked (lines 178 and 181) are left out
queryCallbackArticleNoSelfStamp(h, article, callback) ==
    LET h1 == [h EXCEPT !.checked = @ + 1]
    IN IF ~h1.object[article].spatial.exists
       THEN [h |-> h1, visited |-> <<>>, ret |-> FALSE, threw |-> TRUE]
       ELSE queryCallbackArticleLoop(
                h1, articles(h1, h1.object[article].spatial.maps),
                callback, <<>>)

\* queryCallbackArticle(article, callback): the counter is advanced and the
\* article stamped before article.spatial.maps is read, which raises a
\* TypeError for an article that was never given to insert
queryCallbackArticle(h, article, callback) ==
    LET h1 == [h EXCEPT !.checked = @ + 1,
                        !.object[article].checked = h.checked + 1]
    IN IF ~h1.object[article].spatial.exists
       THEN [h |-> h1, visited |-> <<>>, ret |-> FALSE, threw |-> TRUE]
       ELSE queryCallbackArticleLoop(
                h1, articles(h1, h1.object[article].spatial.maps),
                callback, <<>>)

\* getAverageSize() called on map m: total / this.count, kept as the pair
\* of the two numbers (the quotient is not an integer in general)
RECURSIVE getAverageSizeLoop(_, _, _, _)
getAverageSizeLoop(h, m, i, total) ==
    IF i >= h.map[m].count THEN total
    ELSE getAverageSizeLoop(h, m, i + 1, total + Len(h.map[m].grid[i]))

getAverageSize(h, m) ==
    [total |-> getAverageSizeLoop(h, m, 0, 0), count |-> h.map[m].count]

\* getLargest() called on map m
RECURSIVE getLargestLoop(_, _, _, _)
getLargestLoop(h, m, i, largest) ==
    IF i >= h.map[m].count THEN largest
    ELSE getLargestLoop(h, m, i + 1,
                        IF Len(h.map[m].grid[i]) > largest
                        THEN Len(h.map[m].grid[i]) ELSE largest)

getLargest(h, m) == getLargestLoop(h, m, 0, 0)

\* getBuckets() called on map m: one entry per cell, row by row, with the
\* AABB of the cell and the bucket itself (by name, it is the array of the
\* grid and no copy)
getBuckets(h, m) ==
    LET this == h.map[m]
    IN [k \in 1..(this.width * this.height) |->
            LET x  == (k - 1) % this.width
                y  == (k - 1) \div this.width
                xx == x * this.cellSize
                yy == y * this.cellSize
            IN [AABB |-> <<xx, yy, xx + this.cellSize, yy + this.cellSize>>,
                bucket |-> <<m, x + y * this.width>>]]

\* A callback that calls the map itself: invoked on the article `at` it
\* starts the traversal `inner` (with a callback that returns nothing) and
\* then returns nothing; on any other article it just returns nothing.
\* The result is the heap the callback leaves behind.
callbackNested(h, article, at, inner) ==
    IF article # at THEN h
    ELSE IF inner.op = "queryCallback"
         THEN queryCallback(h, inner.map, inner.AABB,
                            [a \in DOMAIN h.object |-> FALSE]).h
         ELSE queryCallbackArticle(h, article,
                                   [a \in DOMAIN h.object |-> FALSE]).h

\* the loops of queryCallback over the articles of the buckets in range,
\* with a callback that calls the map itself.  `checked` is the variable of
\* the module: the test and the stamp of lines 230 and 236 read it anew
\* after the callback has returned.
RECURSIVE queryCallbackLoopNested(_, _, _, _, _)
queryCallbackLoopNested(h, as, at, inner, visited) ==
    IF as = <<>> THEN [h |-> h, visited |-> visited, ret |-> FALSE]
    ELSE LET article == Head(as)
         IN IF h.object[article].checked # h.checked
            THEN LET h1 == callbackNested(h, article, at, inner)
                 IN queryCallbackLoopNested(
                        [h1 EXCEPT !.object[article].checked = h1.checked],
                        Tail(as), at, inner, Append(visited, article))
            ELSE queryCallbackLoopNested(h, Tail(as), at, inner, visited)

\* queryCallback(AABB, callback) called on map m with such a callback
queryCallbackNested(h, m, AABB, at, inner) ==
    LET r  == queryCallbackRange(h.map[m], AABB)
        h1 == [h EXCEPT !.checked = @ + 1]
        cs == cells(r, h.map[m].width)
    IN queryCallbackLoopNested(
           h1, articles(h1, [k \in 1..Len(cs) |-> <<m, cs[k]>>]),
           at, inner, <<>>)

\* the traversals a callback may start
Inner ==
    {[op |-> "queryCallback", map |-> m, AABB |-> b] :
         m \in MapIds, b \in Boxes}
        \cup {[op |-> "queryCallbackArticle"]}

\* the callbacks the caller passes: callback[a] is its return value for a
Callbacks == [Items -> BOOLEAN]

\* One map built by the constructor, with or without options.update; the
\* caller's objects each with an AABB, none given to insert yet.  `checked`
\* starts at Math.floor(Math.random() * 1000000); the traversals only test
\* stamps against it for equality, so one starting value stands for all.
Init ==
    /\ \E tracking \in BOOLEAN :
           map = [m \in MapIds |->
                      constructor(CellSize, WorldWidth, WorldHeight,
                                  [update |-> tracking])]
    /\ object \in [Items -> {[AABB |-> b, spatial |-> noSpatial,
                              checked |-> undefined] : b \in Boxes}]
    /\ checked = 0
    /\ lastCall = [o \in Items |-> "none"]
    /\ last = [op |-> "new"]

\* the caller moves its object: object.AABB = b
SetAABB(o, b) ==
    /\ object[o].AABB # b
    /\ object' = [object EXCEPT ![o].AABB = b]
    /\ last' = [op |-> "AABB", object |-> o]
    /\ UNCHANGED <<map, checked, lastCall>>

\* map.insert(object).  `same` notes whether the range insert computes is
\* the one cached on the object, `replaced` whether insert took the object
\* out of the buckets of its old range (the call of line 92),
\* `afterRemove` whether the caller's call just before was
\* map.remove(object).
Insert(m, o) ==
    LET h == insert(heap, m, o)
        s == object[o].spatial
        r == insertRange(map[m], object[o].AABB)
    IN /\ map' = h.map
       /\ object' = h.object
       /\ lastCall' = [lastCall EXCEPT ![o] = "insert"]
       /\ last' = [op |-> "insert", map |-> m, object |-> o,
                   same |-> /\ s.exists
                            /\ <<s.xStart, s.yStart, s.xEnd, s.yEnd>> =
                                   <<r.xStart, r.yStart, r.xEnd, r.yEnd>>,
                   replaced |-> /\ s.exists
                                /\ <<s.xStart, s.yStart, s.xEnd, s.yEnd>> #
                                       <<r.xStart, r.yStart, r.xEnd, r.yEnd>>
                                /\ Len(s.maps) > 0,
                   afterRemove |-> /\ last.op = "remove"
                                   /\ last.map = m
                                   /\ last.object = o]
       /\ UNCHANGED checked

\* map.remove(object)
Remove(m, o) ==
    LET h == remove(heap, m, o, FALSE)
    IN /\ map' = h.map
       /\ object' = h.object
       /\ lastCall' = [lastCall EXCEPT ![o] = "remove"]
       /\ last' = [op |-> "remove", map |-> m, object |-> o]
       /\ UNCHANGED checked

\* map.update()
Update(m) ==
    LET h == update(heap, m)
    IN /\ map' = h.map
       /\ object' = h.object
       /\ last' = [op |-> "update", map |-> m]
       /\ UNCHANGED <<checked, lastCall>>

\* map.query(AABB)
Query(m, AABB) ==
    LET res == query(heap, m, AABB)
    IN /\ last' = [op |-> "query", map |-> m, AABB |-> AABB,
                   threw |-> res.threw, results |-> res.results]
       /\ UNCHANGED <<map, object, checked, lastCall>>

\* map.queryCallback(AABB, callback)
QueryCallback(m, AABB, callback) ==
    LET res == queryCallback(heap, m, AABB, callback)
    IN /\ checked < MaxChecked
       /\ object' = res.h.object
       /\ checked' = res.h.checked
       /\ last' = [op |-> "queryCallback", map |-> m, AABB |-> AABB,
                   callback |-> callback, visited |-> res.visited,
                   ret |-> res.ret]
       /\ UNCHANGED <<map, lastCall>>

\* map.queryCallbackArticle(article, callback)
QueryCallbackArticle(m, article, callback) ==
    LET res == queryCallbackArticle(heap, article, callback)
    IN /\ checked < MaxChecked
       /\ object' = res.h.object
       /\ checked' = res.h.checked
       /\ last' = [op |-> "queryCallbackArticle", map |-> m,
                   object |-> article, callback |-> callback,
                   visited |-> res.visited, ret |-> res.ret,
                   threw |-> res.threw]
       /\ UNCHANGED <<map, lastCall>>

\* map.query(object.AABB): the caller asks for what is around its object
QueryAt(m, o) == Query(m, object[o].AABB)

\* map.queryCallback(object.AABB, callback) with a callback that returns
\* nothing, as the collisions() of the demo calls it
QueryCallbackAt(m, o) ==
    QueryCallback(m, object[o].AABB, [a \in Items |-> FALSE])

\* map.queryCallback(AABB, callback) with a callback that starts the
\* traversal `inner` when it is invoked on the article `at`
QueryCallbackNested(m, AABB, at, inner) ==
    LET res == queryCallbackNested(heap, m, AABB, at, inner)
    IN /\ res.h.checked <= MaxChecked
       /\ object' = res.h.object
       /\ checked' = res.h.checked
       /\ last' = [op |-> "queryCallbackNested", map |-> m, AABB |-> AABB,
                   at |-> at, inner |-> inner, visited |-> res.visited,
                   ret |-> res.ret]
       /\ UNCHANGED <<map, lastCall>>

\* map.getAverageSize()
GetAverageSize(m) ==
    /\ last' = [op |-> "getAverageSize", map |-> m,
                ret |-> getAverageSize(heap, m)]
    /\ UNCHANGED <<map, object, checked, lastCall>>

\* map.getLargest()
GetLargest(m) ==
    /\ last' = [op |-> "getLargest", map |-> m, ret |-> getLargest(heap, m)]
    /\ UNCHANGED <<map, object, checked, lastCall>>

\* map.getBuckets()
GetBuckets(m) ==
    /\ last' = [op |-> "getBuckets", map |-> m, ret |-> getBuckets(heap, m)]
    /\ UNCHANGED <<map, object, checked, lastCall>>

\* The caller moves its objects, keeps the map up to date and asks it with
\* query.
Next ==
    \/ \E o \in Items, b \in Boxes : SetAABB(o, b)
    \/ \E m \in MapIds, o \in Items : Insert(m, o)
    \/ \E m \in MapIds, o \in Items : Remove(m, o)
    \/ \E m \in MapIds : Update(m)
    \/ \E m \in MapIds, b \in Boxes : Query(m, b)

Spec == Init /\ [][Next]_vars

\* The caller inserts and removes its objects, each where Init put it, and
\* asks the map with the two callback queries.
NextCallback ==
    \/ \E m \in MapIds, o \in Items : Insert(m, o)
    \/ \E m \in MapIds, o \in Items : Remove(m, o)
    \/ \E m \in MapIds, b \in Boxes, callback \in Callbacks :
           QueryCallback(m, b, callback)
    \/ \E m \in MapIds, o \in Items, callback \in Callbacks :
           QueryCallbackArticle(m, o, callback)

SpecCallback == Init /\ [][NextCallback]_vars

\* The caller inserts its objects, each where Init put it, and asks the
\* map with queryCallback, passing a callback that asks the map again.
NextNested ==
    \/ \E m \in MapIds, o \in Items : Insert(m, o)
    \/ \E m \in MapIds, b \in Boxes, at \in Items, inner \in Inner :
           QueryCallbackNested(m, b, at, inner)

SpecNested == Init /\ [][NextNested]_vars

\* The caller inserts and removes its objects, each where Init put it,
\* calls update, and reads the map with every method that reads it, the
\* two range queries around its objects.
NextRead ==
    \/ \E m \in MapIds, o \in Items : Insert(m, o)
    \/ \E m \in MapIds, o \in Items : Remove(m, o)
    \/ \E m \in MapIds : Update(m)
    \/ \E m \in MapIds, o \in Items : QueryAt(m, o)
    \/ \E m \in MapIds, o \in Items : QueryCallbackAt(m, o)
    \/ \E m \in MapIds, o \in Items, callback \in Callbacks :
           QueryCallbackArticle(m, o, callback)
    \/ \E m \in MapIds : GetAverageSize(m)
    \/ \E m \in MapIds : GetLargest(m)
    \/ \E m \in MapIds : GetBuckets(m)

SpecRead == Init /\ [][NextRead]_vars

\* ------------------------------------------------------------- properties
\* how many times o occurs in list
count(list, o) == Cardinality({k \in 1..Len(list) : list[k] = o})

\* the elements of a sequence
Range(seq) == {seq[k] : k \in 1..Len(seq)}

\* the buckets of map m that hold o
holding(m, o) == {i \in DOMAIN map[m].grid : count(map[m].grid[i], o) > 0}

\* the cells of the range cached on o by its last insert
cachedCells(m, o) ==
    LET s == object[o].spatial
    IN IF s.exists /\ s.xStart # undefined
       THEN Range(cells(s, map[m].width))
       ELSE {}

\* the cells of the range a query of map m computes for AABB
queryCells(m, AABB) == Range(cells(queryRange(map[m], AABB), map[m].width))

\* the articles held by the buckets of the range queryCallback computes
inRange(m, AABB) ==
    {o \in Items :
        holding(m, o) \cap
            Range(cells(queryCallbackRange(map[m], AABB), map[m].width)) # {}}

\* C1: immediately after insert(I), query(I.AABB) returns a collection that
\* contains I at least once.
C1_InsertThenQueryFinds ==
    last.op = "insert" =>
        LET res == query(heap, last.map, object[last.object].AABB)
        IN ~res.threw /\ count(res.results, last.object) >= 1

\* C2: query(Q) returns every item as many times as there are cells shared
\* by the range cached at its last insert and the range of Q (not at all
\* when they share none).
C2_QueryCountsSharedCells ==
    last.op = "query" =>
        /\ ~last.threw
        /\ \A o \in Items :
               count(last.results, o) =
                   Cardinality(cachedCells(last.map, o)
                                   \cap queryCells(last.map, last.AABB))

\* C3: from remove(I) until the next insert(I), whatever else is called, no
\* bucket holds I and a query of the entire world does not return I.
C3_RemovedStaysOut ==
    \A o \in Items :
        lastCall[o] = "remove" =>
            \A m \in MapIds :
                /\ holding(m, o) = {}
                /\ count(query(heap, m, EntireWorld).results, o) = 0

\* C3 is exercised: I was in buckets, was removed, and since then the other
\* object was inserted into a bucket I used to be in.
C3_Witness ==
    \E o \in Items :
        /\ lastCall[o] = "remove"
        /\ last.op = "insert" /\ last.object # o
        /\ cachedCells(last.map, o) \cap holding(last.map, last.object) # {}

\* C4: insert(I) with a computed range equal to the cached one changes no
\* bucket (content or order) and not I's handle.
C4_SameRangeNoMutation ==
    [][\A m \in MapIds, o \in Items :
           ( /\ last'.op = "insert" /\ last'.map = m /\ last'.object = o
             /\ object[o].spatial.exists
             /\ LET s == object[o].spatial
                    r == insertRange(map[m], object[o].AABB)
                IN <<s.xStart, s.yStart, s.xEnd, s.yEnd>> =
                       <<r.xStart, r.yStart, r.xEnd, r.yEnd>> )
           => (map' = map /\ object' = object)]_vars

\* C4 is exercised: the insert just called found the cached range, for an
\* object that sits in a bucket in front of another object.
C4_Witness ==
    /\ last.op = "insert" /\ last.same
    /\ \E i \in holding(last.map, last.object) :
           /\ Len(map[last.map].grid[i]) >= 2
           /\ map[last.map].grid[i][1] = last.object

C7_VisitsOnlyNeighbours ==
    last.op = "queryCallbackArticle" =>
        \A k \in 1..Len(last.visited) :
            \E j \in 1..Len(object[last.object].spatial.maps) :
                LET b == object[last.object].spatial.maps[j]
                IN count(map[b[1]].grid[b[2]], last.visited[k]) > 0

\* C7 is exercised: the call was made for an item in buckets, the other item
\* sits in buckets too, none of them shared, and nothing was visited.
C7_Witness ==
    /\ last.op = "queryCallbackArticle"
    /\ ~last.threw
    /\ holding(last.map, last.object) # {}
    /\ \E o \in Items \ {last.object} :
           /\ holding(last.map, o) # {}
           /\ holding(last.map, o) \cap holding(last.map, last.object) = {}
    /\ last.visited = <<>>

\* C8: insert(I) directly after remove(I) puts I in every bucket of the
\* range of its AABB, also when that range is the one cached before the
\* remove.
C8_ReinsertAfterRemove ==
    (last.op = "insert" /\ last.afterRemove) =>
        Range(cells(insertRange(map[last.map], object[last.object].AABB),
                    map[last.map].width))
            \subseteq holding(last.map, last.object)

\* C9: remove(I) of an item that was never inserted, or was removed already,
\* changes nothing: no bucket, no handle, not the tracked list.
C9_RemoveAbsentIsNoOp ==
    [][(last'.op = "remove" /\ lastCall[last'.object] # "insert")
           => (map' = map /\ object' = object)]_vars

\* C10: query(Q) raises no error and returns the contents of the buckets of
\* Q's range, concatenated.
C10_QueryReturnsBuckets ==
    last.op = "query" =>
        /\ ~last.threw
        /\ last.results =
               LET cs == cells(queryRange(map[last.map], last.AABB),
                               map[last.map].width)
               IN articles(heap, [k \in 1..Len(cs) |-> <<last.map, cs[k]>>])

\* C11: with options.update, after any sequence of insert and remove calls
\* the tracked list holds exactly the items whose most recent insert/remove
\* call was an insert, each exactly once.
C11_ListTracksInserted ==
    \A m \in MapIds :
        map[m].list # null =>
            \A o \in Items :
                count(map[m].list, o) =
                    IF lastCall[o] = "insert" THEN 1 ELSE 0

\* C12: with options.update, after update() every item that was inserted
\* and not removed sits in exactly the buckets of the cell range of its
\* current AABB.
C12_UpdateRefreshesInserted ==
    (last.op = "update" /\ map[last.map].list # null) =>
        \A o \in Items :
            lastCall[o] = "insert" =>
                holding(last.map, o) =
                    Range(cells(insertRange(map[last.map], object[o].AABB),
                                map[last.map].width))

\* ------------------------------------------------------------ cell ranges
\* Every integer AABB [x1, y1, x2, y2] with x1 <= x2 and y1 <= y2 whose
\* coordinates reach from one cell before the world to one cell past it:
\* boxes inside the world, across its edges and wholly outside it, boxes
\* with edges on cell boundaries, zero-width and zero-area boxes.
WideBoxes ==
    {b \in ((0 - CellSize)..(WorldWidth + CellSize))
               \X ((0 - CellSize)..(WorldHeight + CellSize))
               \X ((0 - CellSize)..(WorldWidth + CellSize))
               \X ((0 - CellSize)..(WorldHeight + CellSize)) :
        b[1] <= b[3] /\ b[2] <= b[4]}

\* One map built as in the README example (no options); the first object
\* has any of the wide AABBs, the others lie on the first cell; none is
\* given to insert yet.
InitRange ==
    /\ map = [m \in MapIds |->
                  constructor(CellSize, WorldWidth, WorldHeight,
                              [update |-> FALSE])]
    /\ \E b \in WideBoxes :
           object = [o \in Items |->
                         [AABB |-> IF o = 1 THEN b
                                   ELSE <<0, 0, CellSize, CellSize>>,
                          spatial |-> noSpatial,
                          checked |-> undefined]]
    /\ checked = 0
    /\ lastCall = [o \in Items |-> "none"]
    /\ last = [op |-> "new"]

\* The caller inserts its objects and asks the map around each of them.
NextRange ==
    \/ \E m \in MapIds, o \in Items : Insert(m, o)
    \/ \E m \in MapIds, o \in Items : QueryAt(m, o)
    \/ \E m \in MapIds, o \in Items : QueryCallbackAt(m, o)

SpecRange == InitRange /\ [][NextRange]_vars

\* the cells (x, y) the nested loops of a method walk for the range r
walked(r) == (r.xStart..r.xEnd) \X (r.yStart..r.yEnd)

\* C13: an AABB partly or fully outside the world is clamped, not dropped:
\* insert places the item in at least one bucket, with xStart and xEnd each
\* within [0, width - 1] and yStart and yEnd each within [0, height - 1].
\* Stated for AABBs of positive width and height (zero-area AABBs are the
\* case of C15).
C13_OutsideIsClamped ==
    ( /\ last.op = "insert"
      /\ object[last.object].AABB[1] < object[last.object].AABB[3]
      /\ object[last.object].AABB[2] < object[last.object].AABB[4] ) =>
        LET s == object[last.object].spatial
            this == map[last.map]
        IN /\ holding(last.map, last.object) # {}
           /\ s.xStart \in 0..(this.width - 1)
           /\ s.xEnd \in 0..(this.width - 1)
           /\ s.yStart \in 0..(this.height - 1)
           /\ s.yEnd \in 0..(this.height - 1)

\* the heap of the worked examples: a world of 100 x 100 with cells of 10,
\* and objects that all have the AABB b, none given to insert yet
exampleHeap(b) ==
    [map |-> [m \in MapIds |->
                  constructor(10, 100, 100, [update |-> FALSE])],
     object |-> [o \in Items |-> [AABB |-> b, spatial |-> noSpatial,
                                  checked |-> undefined]],
     checked |-> 0]

\* the cells (x, y) of the buckets object o is in after map.insert(o) on
\* exampleHeap(b)
exampleCells(b, m, o) ==
    LET h == insert(exampleHeap(b), m, o)
    IN {c \in (0..(h.map[m].width - 1)) \X (0..(h.map[m].height - 1)) :
           count(h.map[m].grid[c[2] * h.map[m].width + c[1]], o) > 0}

\* the worked example of clamping: the AABB (-5, -5, 5, 5) ends up in cell
\* (0, 0) only
exampleClamped ==
    \A m \in MapIds, o \in Items :
        exampleCells(<<-5, -5, 5, 5>>, m, o) = {<<0, 0>>}

\* C14: for any AABB, the loops of insert, query and queryCallback walk no
\* cell column outside [0, width - 1] and no bucket index outside
\* [0, width * height), and every bucket a handle lists is a bucket of the
\* grid; an item with AABB (-5, -5, 5, 5) in a world of 100 x 100 with
\* cells of 10 ends up in cell (0, 0) only.
C14_NoBucketOutOfRange ==
    /\ \A m \in MapIds, o \in Items :
           LET this == map[m]
               b == object[o].AABB
           IN /\ \A r \in {insertRange(this, b), queryRange(this, b),
                           queryCallbackRange(this, b)} :
                     \A c \in walked(r) :
                         /\ c[1] \in 0..(this.width - 1)
                         /\ c[2] * this.width + c[1] \in 0..(this.count - 1)
              /\ \A k \in 1..Len(object[o].spatial.maps) :
                     object[o].spatial.maps[k][2] \in 0..(this.count - 1)
    /\ exampleClamped

\* C14 is exercised: the insert just called was given an AABB that sticks
\* out of the world on all four sides, and the item is in every bucket.
C14_Witness ==
    /\ last.op = "insert"
    /\ LET b == object[last.object].AABB
       IN /\ b[1] < 0 /\ b[2] < 0
          /\ b[3] > WorldWidth /\ b[4] > WorldHeight
    /\ holding(last.map, last.object) = DOMAIN map[last.map].grid

\* C15: a zero-area AABB (minX = maxX, minY = maxY) at any point inside the
\* world, points on a cell boundary included, is put in exactly one bucket
\* by insert.
C15_PointInOneCell ==
    ( /\ last.op = "insert"
      /\ LET b == object[last.object].AABB
         IN /\ b[1] = b[3] /\ b[2] = b[4]
            /\ b[1] \in 0..(WorldWidth - 1)
            /\ b[2] \in 0..(WorldHeight - 1) ) =>
        Cardinality(holding(last.map, last.object)) = 1

\* the cells (x, y) of map `this` whose half-open square
\* [x * cellSize, (x + 1) * cellSize) x [y * cellSize, (y + 1) * cellSize)
\* meets the box b
meeting(this, b) ==
    {c \in (0..(this.width - 1)) \X (0..(this.height - 1)) :
        /\ c[1] * this.cellSize < b[3] /\ (c[1] + 1) * this.cellSize > b[1]
        /\ c[2] * this.cellSize < b[4] /\ (c[2] + 1) * this.cellSize > b[2]}

\* an integer AABB with minX < maxX and minY < maxY that lies inside the
\* world
properInside(b) ==
    /\ b[1] < b[3] /\ b[2] < b[4]
    /\ 0 <= b[1] /\ b[3] <= WorldWidth
    /\ 0 <= b[2] /\ b[4] <= WorldHeight

\* the worked example of the half-open cells: the AABB (5, 5, 15, 15) ends
\* up in cells (0, 0), (1, 0), (0, 1) and (1, 1)
exampleFourCells ==
    \A m \in MapIds, o \in Items :
        exampleCells(<<5, 5, 15, 15>>, m, o) =
            {<<0, 0>>, <<1, 0>>, <<0, 1>>, <<1, 1>>}

\* C19: for an integer AABB with minX < maxX and minY < maxY inside the
\* world, the range insert, query and queryCallback compute is exactly the
\* set of cells whose half-open square meets the box (a max edge on a cell
\* boundary does not claim the next cell), and insert puts the item in
\* exactly the buckets of these cells; with cells of 10 the box
\* (5, 5, 15, 15) occupies exactly cells (0, 0), (1, 0), (0, 1), (1, 1).
C19_RangeIsCellsMet ==
    /\ \A m \in MapIds, o \in Items :
           LET this == map[m]
               b == object[o].AABB
           IN properInside(b) =>
                  /\ walked(insertRange(this, b)) = meeting(this, b)
                  /\ walked(queryRange(this, b)) = meeting(this, b)
                  /\ walked(queryCallbackRange(this, b)) = meeting(this, b)
                  /\ lastCall[o] = "insert" =>
                         holding(m, o) =
                             {c[2] * this.width + c[1] :
                                  c \in meeting(this, b)}
    /\ exampleFourCells

\* C19 is exercised: the insert just called was given a box inside the
\* world whose max x edge lies on a cell boundary with a further column
\* beyond it, and which reaches across a boundary between two rows; the
\* item is in two or more buckets, none of them in the column beyond.
C19_Witness ==
    /\ last.op = "insert"
    /\ LET b == object[last.object].AABB
       IN /\ properInside(b)
          /\ b[3] % CellSize = 0 /\ b[3] < WorldWidth
          /\ \E k \in 1..WorldHeight :
                 b[2] < k * CellSize /\ k * CellSize < b[4]
          /\ \A i \in holding(last.map, last.object) :
                 (i % map[last.map].width) * CellSize < b[3]
    /\ Cardinality(holding(last.map, last.object)) >= 2

\* ----------------------------------------------------- constructor inputs
\* A map built from any signs of the three numbers (cellSize 0 apart, for
\* which Math.ceil(width / cellSize) is Infinity or NaN), without options.
\* The constructor has no throw statement: whatever it is given, it returns
\* an instance.
InitNew ==
    /\ \E cellSize \in {CellSize, 0 - CellSize},
          width \in {WorldWidth, 0, 0 - WorldWidth},
          height \in {WorldHeight, 0, 0 - WorldHeight} :
           /\ map = [m \in MapIds |->
                         constructor(cellSize, width, height,
                                     [update |-> FALSE])]
           /\ last = [op |-> "new", cellSize |-> cellSize,
                      width |-> width, height |-> height, threw |-> FALSE]
    /\ object \in [Items -> {[AABB |-> b, spatial |-> noSpatial,
                              checked |-> undefined] : b \in Boxes}]
    /\ checked = 0
    /\ lastCall = [o \in Items |-> "none"]

\* The caller uses the instance it got: it inserts and removes its objects.
NextNew ==
    \/ \E m \in MapIds, o \in Items : Insert(m, o)
    \/ \E m \in MapIds, o \in Items : Remove(m, o)

SpecNew == InitNew /\ [][NextNew]_vars

\* C16: new SpatialMap with cellSize <= 0, width <= 0 or height <= 0 fails
\* with an error and yields no map.
C16_BadArgumentsRejected ==
    ( /\ last.op = "new"
      /\ \/ last.cellSize <= 0
         \/ last.width <= 0
         \/ last.height <= 0 ) => last.threw

\* C17: in every state reachable by insert, remove and update (and the
\* caller moving its objects), for every item with a handle the buckets
\* listed in the handle are exactly the buckets of the cells of the cached
\* range, and a bucket contains the item if and only if the handle lists
\* it.
C17_HandleMatchesCachedRange ==
    \A m \in MapIds, o \in Items :
        object[o].spatial.exists =>
            LET listed == {object[o].spatial.maps[k][2] :
                               k \in 1..Len(object[o].spatial.maps)}
            IN /\ listed = cachedCells(m, o)
               /\ holding(m, o) = listed

\* C18: insert(I) that computes a range different from the cached one (or
\* finds none cached) leaves I in every bucket of the new range and in no
\* other bucket, caches the new range, and changes the membership of no
\* other item in any bucket.
C18_ChangedRangeMovesOnlyItem ==
    [][\A m \in MapIds, o \in Items :
           LET s == object[o].spatial
               r == insertRange(map[m], object[o].AABB)
           IN ( /\ last'.op = "insert" /\ last'.map = m /\ last'.object = o
                /\ \/ ~s.exists
                   \/ <<s.xStart, s.yStart, s.xEnd, s.yEnd>> #
                          <<r.xStart, r.yStart, r.xEnd, r.yEnd>> )
              => /\ \A i \in DOMAIN map'[m].grid :
                        count(map'[m].grid[i], o) =
                            IF i \in Range(cells(r, map[m].width))
                            THEN 1 ELSE 0
                 /\ LET s1 == object'[o].spatial
                    IN <<s1.xStart, s1.yStart, s1.xEnd, s1.yEnd>> =
                           <<r.xStart, r.yStart, r.xEnd, r.yEnd>>
                 /\ \A p \in Items \ {o} :
                        /\ object'[p] = object[p]
                        /\ \A i \in DOMAIN map[m].grid :
                               count(map'[m].grid[i], p) =
                                   count(map[m].grid[i], p)]_vars

\* C18 is exercised: the insert just called took the item out of the
\* buckets of its old range and put it in those of a new one, where it
\* shares a bucket with the other item.
C18_Witness ==
    /\ last.op = "insert" /\ last.replaced
    /\ \E p \in Items \ {last.object} :
           holding(last.map, p) \cap holding(last.map, last.object) # {}

\* the methods that only read the map
Readers ==
    {"query", "queryCallback", "queryCallbackArticle", "getAverageSize",
     "getLargest", "getBuckets"}

\* C20: query, queryCallback, queryCallbackArticle, getAverageSize,
\* getLargest and getBuckets change no bucket (content or order), no item's
\* cached range or bucket list, and not the tracked list; only the counter
\* `checked` and the stamps object.checked may change.
C20_ReadersChangeNothing ==
    [][last'.op \in Readers =>
           /\ map' = map
           /\ \A o \in Items :
                  /\ object'[o].spatial = object[o].spatial
                  /\ object'[o].AABB = object[o].AABB]_vars

\* C20 is exercised: a queryCallbackArticle call visited the other item of
\* a shared bucket, for an article in two or more buckets of a map with a
\* tracked list, and advanced the counter.
C20_Witness ==
    /\ last.op = "queryCallbackArticle"
    /\ last.visited # <<>>
    /\ map[last.map].list # null /\ map[last.map].list # <<>>
    /\ Len(object[last.object].spatial.maps) >= 2
    /\ checked > 0

\* C21: in every state reachable by insert, remove and update on one map
\* (and the caller moving its objects), the map has the width * height
\* buckets the constructor made, and every bucket holds any given item at
\* most once.
C21_BucketsFixedNoDuplicates ==
    \A m \in MapIds :
        /\ map[m].width = ceil(WorldWidth, CellSize)
        /\ map[m].height = ceil(WorldHeight, CellSize)
        /\ map[m].count = map[m].width * map[m].height
        /\ DOMAIN map[m].grid = 0..(map[m].width * map[m].height - 1)
        /\ \A i \in DOMAIN map[m].grid, o \in Items :
               count(map[m].grid[i], o) <= 1

\* C21 is exercised: the insert just called moved the item from the
\* buckets of one range to two or more buckets of another, while the other
\* item sits in buckets and has dropped out of the tracked list.
C21_Witness ==
    /\ last.op = "insert" /\ last.replaced
    /\ Cardinality(holding(last.map, last.object)) >= 2
    /\ \E p \in Items \ {last.object} :
           /\ lastCall[p] = "insert"
           /\ holding(last.map, p) # {}
           /\ map[last.map].list # null
           /\ count(map[last.map].list, p) = 0

\* -------------------------------------------------------------- two maps
\* two instances, A = 1 and B = 2
TwoMaps == {1, 2}

\* Two maps built by the constructor over the same world, both with
\* options.update; the caller's objects each with an AABB, none given to
\* insert yet.
InitTwo ==
    /\ map = [m \in TwoMaps |->
                  constructor(CellSize, WorldWidth, WorldHeight,
                              [update |-> TRUE])]
    /\ object \in [Items -> {[AABB |-> b, spatial |-> noSpatial,
                              checked |-> undefined] : b \in Boxes}]
    /\ checked = 0
    /\ lastCall = [o \in Items |-> "none"]
    /\ last = [op |-> "new"]

\* The caller moves its objects and gives them to either map.
NextTwo ==
    \/ \E o \in Items, b \in Boxes : SetAABB(o, b)
    \/ \E m \in TwoMaps, o \in Items : Insert(m, o)
    \/ \E m \in TwoMaps, o \in Items : Remove(m, o)
    \/ \E m \in TwoMaps : Update(m)

SpecTwo == InitTwo /\ [][NextTwo]_vars

\* C23: no insert, remove or update called on one map changes the contents
\* of a bucket of the other map, and insert(I) on a map leaves I in the
\* buckets of that map for the cell range of its AABB, whatever an earlier
\* insert into the other map cached.
C23_OtherMapUntouched ==
    [][\A m \in TwoMaps :
           (last'.op \in {"insert", "remove", "update"} /\ last'.map = m)
           => /\ \A n \in TwoMaps \ {m} : map'[n].grid = map[n].grid
              /\ last'.op = "insert" =>
                     LET o == last'.object
                         r == insertRange(map[m], object[o].AABB)
                     IN \A i \in Range(cells(r, map[m].width)) :
                            count(map'[m].grid[i], o) = 1]_vars

\* the buckets of map m listed in the handle of o
listed(m, o) ==
    {object[o].spatial.maps[k][2] :
         k \in {j \in 1..Len(object[o].spatial.maps) :
                    object[o].spatial.maps[j][1] = m}}

\* C24: queryCallbackArticle(I, callback), for an I that has a handle, never
\* invokes the callback on I itself; when no call of the callback returns
\* truthy it invokes it exactly once on every other item that is in a
\* bucket listed in I's handle and returns false; when the handle lists no
\* bucket (after remove) it invokes nothing and returns false.
C24_ArticleQueryVisitsOthersOnce ==
    (last.op = "queryCallbackArticle" /\ ~last.threw) =>
        LET I == last.object
            v == last.visited
        IN /\ count(v, I) = 0
           /\ ~last.ret =>
                  /\ Range(v) =
                         {p \in Items \ {I} :
                              holding(last.map, p) \cap listed(last.map, I)
                                  # {}}
                  /\ \A p \in Items : count(v, p) <= 1
           /\ last.ret = (\E k \in 1..Len(v) : last.callback[v[k]])
           /\ object[I].spatial.maps = <<>> => (v = <<>> /\ ~last.ret)

\* C24 is exercised: I is in two or more buckets, all shared with the other
\* item and each with I in front, and the callback, which returns falsy,
\* was invoked on the other item once and not on I.
C24_Witness ==
    /\ last.op = "queryCallbackArticle" /\ ~last.threw /\ ~last.ret
    /\ Cardinality(listed(last.map, last.object)) >= 2
    /\ \A i \in listed(last.map, last.object) :
           /\ Len(map[last.map].grid[i]) = 2
           /\ map[last.map].grid[i][1] = last.object
    /\ Len(last.visited) = 1
    /\ last.visited[1] # last.object

\* C25: the counter `checked` goes up by exactly one on every queryCallback
\* and queryCallbackArticle call and is changed by no other method, and in
\* every reachable state no object carries a stamp greater than the
\* counter (so none carries the stamp of the next traversal).
C25_CounterAdvancesByOne ==
    /\ [](\A o \in Items :
              object[o].checked = undefined \/ object[o].checked <= checked)
    /\ [][checked' =
              IF last'.op \in {"queryCallback", "queryCallbackArticle"}
              THEN checked + 1 ELSE checked]_vars

\* C25 is exercised: the queryCallback just made was not the first
\* traversal; one item carries its stamp, the other the stamp of an
\* earlier traversal.
C25_Witness ==
    /\ last.op = "queryCallback"
    /\ checked >= 2
    /\ \E o \in Items, p \in Items :
           /\ object[o].checked = checked
           /\ object[p].checked # undefined
           /\ object[p].checked < checked

\* C22: a queryCallback traversal whose callback starts another traversal
\* before returning falsy still invokes the callback at most once per item
\* and on every item held by a bucket of its range.
C22_ReentrantVisitsOnce ==
    last.op = "queryCallbackNested" =>
        /\ \A o \in Items : count(last.visited, o) <= 1
        /\ Range(last.visited) = inRange(last.map, last.AABB)
====
